---- MODULE Spec2Model ----
(***************************************************************************)
(* The policy-based registry of include/cppregpattern/registry.h:          *)
(*   registry::Registry<Key, Func, MKP, Hash, KeyEqual, Allocator>         *)
(* A registry instantiation owns one function-local static unordered_map   *)
(* (funcs()), which Register, IsRegistered, Unregister and Dispatch read   *)
(* and write.  Dispatch is specialised on the MissingKeyPolicy MKP.        *)
(*                                                                         *)
(* Specifications:                                                         *)
(*   Spec           one instantiation, one caller                          *)
(*   SpecLegacy     the older Registry<T, Pack...> (registry.h) with Create*)
(*   SpecStartup    self-registration statics, then main                   *)
(*   SpecFactories  three instantiations side by side                      *)
(*   SpecRefine     the older registry and a default_construct registry    *)
(*                  given the same calls                                   *)
(*   SpecThreads    several threads calling one instantiation              *)
(*   SpecReaders    several threads calling Dispatch on a filled table     *)
(***************************************************************************)
EXTENDS Integers, Sequences, FiniteSets, TLC

(* ------------------------------ bounds -------------------------------- *)
\* Keys are 1..NumKeys, the sample callables 1..NumFuncs, arguments 0..MaxArg.
\* A callable is a std::function that holds a target (an empty std::function
\* is not among the values registered here).
NumKeys == 3
NumFuncs == 2
MaxArg == 1

Keys == 1..NumKeys
Funcs == 1..NumFuncs
ArgVals == 0..MaxArg

(* ------------------------- values of the program ---------------------- *)
\* enum class MissingKeyPolicy { exception, default_construct, optional }
MissingKeyPolicy == {"exception", "default_construct", "optional"}

\* ret_t(): the value-initialised return value (0 for int, nullptr for a
\* pointer, the empty unique_ptr for the example factories).
RetDefault == 0

\* Calling the std::function stored as callable f with argument a.  The sample
\* callables are a |-> f * a: they differ from each other at every a > 0 and
\* every one of them returns ret_t() at a = 0.
Invoke(f, a) == f * a

\* What a call hands back to its caller.
Returned(v) == [kind |-> "value", val |-> v]            \* a ret_t / bool
OutOfRange == [kind |-> "out_of_range", val |-> 0]      \* std::out_of_range thrown
NullOpt == [kind |-> "nullopt", val |-> 0]              \* std::nullopt
Some(v) == [kind |-> "optional", val |-> v]             \* std::optional holding v
Void == [kind |-> "void", val |-> 0]

(* --------------------- std::unordered_map<Key, func_t> ---------------- *)
\* A map is the set of its elements, std::pair<const Key, func_t>.
EmptyMap == {}

\* m.count(key)
count(m, key) == Cardinality({e \in m : e.first = key})

\* m.find(key): the element found; m.end() is the empty set.
find(m, key) == {e \in m : e.first = key}

\* it->second
second(it) == (CHOOSE e \in it : TRUE).second

\* m.erase(key)
\* (faulty variants: eraseAll clears the map, eraseNone removes nothing)
eraseAll(m, key) == EmptyMap
eraseNone(m, key) == m
erase(m, key) == {e \in m : e.first # key}

\* An assignment that rebuilds the table around the one element it writes.
assignAlone(m, key, func) == {[first |-> key, second |-> func]}

\* m[key] = func: operator[] inserts a default element when key is absent
\* and the assignment replaces the mapped value of the element.
\* (faulty variant: insertOnly is m.insert({key, func}), which keeps the old
\* mapped value of a key that is present)
insertOnly(m, key, func) ==
    IF count(m, key) = 0 THEN m \cup {[first |-> key, second |-> func]} ELSE m
subscriptAssign(m, key, func) ==
    IF count(m, key) = 0
    THEN m \cup {[first |-> key, second |-> func]}
    ELSE {IF e.first = key THEN [e EXCEPT !.second = func] ELSE e : e \in m}

(* ------------------------------- state -------------------------------- *)
VARIABLES
    func_map,     \* per instantiation (named by its MKP): static map_t func_map
    constructed,  \* per instantiation: has the function-local static been built
    last,         \* the call that completed last, with what it returned
    lastMut,      \* per instantiation and key: the latest Register/Unregister of it
    thr,          \* per thread: where it is in the call it is making
    stat,         \* per instantiation: the initialisation of the static by threads
    raced,        \* two threads' accesses to a table conflicted (a data race)
    trig,         \* per self-registration trigger: uninitialized or registered
    inMain,       \* static initialisation is over and main has begun
    ncalls        \* calls made so far, where a specification bounds them

vars == <<func_map, constructed, last, lastMut, thr, stat, raced, trig, inMain, ncalls>>

\* What a call leaves alone when no other thread is running.
ext == <<thr, stat, raced, trig, inMain, ncalls>>

\* The instantiations of the Registry template the program contains.
Registries == DOMAIN func_map

\* One table behind every instantiation, whatever its policy.
funcsShared(r) ==
    LET q == CHOOSE x \in Registries : TRUE
    IN  IF constructed[q] THEN func_map[q] ELSE EmptyMap

\* A table that is an object of namespace scope, used whether or not its
\* constructor has run yet: before it has, what it holds is indeterminate.
funcsEager(r) ==
    IF constructed[r] THEN func_map[r]
    ELSE {[first |-> k, second |-> 1] : k \in Keys}

\* static map_t& funcs(): builds func_map on the first call, then returns it.
funcs(r) == IF constructed[r] THEN func_map[r] ELSE EmptyMap

(* ------------------------------ Dispatch ------------------------------ *)
\* A dispatch yields what is returned (or thrown) and the calls it made to
\* stored callables, in order.
NoCall == <<>>
Call(f, a) == <<[func |-> f, arg |-> a]>>

\* Dispatcher<Registry<K, F, MissingKeyPolicy::exception, ...>>::Dispatch:
\*   return reg_t::funcs().at(key)(std::forward<Args>(args)...);
\* (faulty variants: NoThrow returns ret_t() on a missing key, Twice calls
\* the stored function a second time)
DispatchExceptionNoThrow(m, key, a) ==
    IF count(m, key) = 0
    THEN [ret |-> Returned(RetDefault), invoked |-> NoCall]
    ELSE [ret |-> Returned(Invoke(second(find(m, key)), a)),
          invoked |-> Call(second(find(m, key)), a)]
DispatchExceptionTwice(m, key, a) ==
    IF count(m, key) = 0
    THEN [ret |-> OutOfRange, invoked |-> NoCall]
    ELSE [ret |-> Returned(Invoke(second(find(m, key)), a)),
          invoked |-> Call(second(find(m, key)), a)
                          \o Call(second(find(m, key)), a)]
DispatchException(m, key, a) ==
    IF count(m, key) = 0
    THEN [ret |-> OutOfRange, invoked |-> NoCall]
    ELSE [ret |-> Returned(Invoke(second(find(m, key)), a)),
          invoked |-> Call(second(find(m, key)), a)]

\* Dispatcher<Registry<K, F, MissingKeyPolicy::default_construct, ...>>::Dispatch:
\*   auto it = funcs().find(key);
\*   if (it == funcs().end()) return ret_t();
\*   return it->second(std::forward<Args>(args)...);
\* (faulty variants: DropsArgs calls the function without the caller's
\* argument, Throws raises on a missing key)
DispatchDefaultDropsArgs(m, key, a) ==
    IF find(m, key) = {}
    THEN [ret |-> Returned(RetDefault), invoked |-> NoCall]
    ELSE [ret |-> Returned(Invoke(second(find(m, key)), 0)),
          invoked |-> Call(second(find(m, key)), 0)]
DispatchDefaultThrows(m, key, a) ==
    IF find(m, key) = {}
    THEN [ret |-> OutOfRange, invoked |-> NoCall]
    ELSE [ret |-> Returned(Invoke(second(find(m, key)), a)),
          invoked |-> Call(second(find(m, key)), a)]
DispatchDefault(m, key, a) ==
    LET it == find(m, key)
    IN  IF it = {}
        THEN [ret |-> Returned(RetDefault), invoked |-> NoCall]
        ELSE [ret |-> Returned(Invoke(second(it), a)), invoked |-> Call(second(it), a)]

\* Dispatcher<Registry<K, F, MissingKeyPolicy::optional, ...>>::Dispatch:
\*   auto it = funcs().find(key);
\*   if (it == funcs().end()) return std::nullopt;
\*   return it->second(std::forward<Args>(args)...);
\* (faulty variant: Flattens returns nullopt when the function's value is the
\* default value)
DispatchOptionalFlattens(m, key, a) ==
    LET it == find(m, key)
    IN  IF it = {} \/ Invoke(second(it), a) = RetDefault
        THEN [ret |-> NullOpt, invoked |-> IF it = {} THEN NoCall ELSE Call(second(it), a)]
        ELSE [ret |-> Some(Invoke(second(it), a)), invoked |-> Call(second(it), a)]
DispatchOptional(m, key, a) ==
    LET it == find(m, key)
    IN  IF it = {}
        THEN [ret |-> NullOpt, invoked |-> NoCall]
        ELSE [ret |-> Some(Invoke(second(it), a)), invoked |-> Call(second(it), a)]

\* Registry::Dispatch: forwards to dispatcher_t, the specialisation for MKP.
DispatchOf(mkp, m, key, a) ==
    CASE mkp = "exception" -> DispatchException(m, key, a)
      [] mkp = "default_construct" -> DispatchDefault(m, key, a)
      [] mkp = "optional" -> DispatchOptional(m, key, a)

(* ------------------ Register, IsRegistered, Unregister ---------------- *)
\* Registry::Register: funcs()[key] = func; return true;
\* (faulty variant: RejectsDuplicate inserts and reports whether it inserted)
RegisterRejectsDuplicate(m, key, func) ==
    [map |-> insertOnly(m, key, func), ret |-> Returned(count(m, key) = 0)]
RegisterOf(m, key, func) ==
    [map |-> subscriptAssign(m, key, func), ret |-> Returned(TRUE)]

\* Registry::IsRegistered: funcs().count(key) == 1u
\* (faulty variant: Inverted compares the count with 0)
IsRegisteredInverted(m, key) == count(m, key) = 0
IsRegisteredOf(m, key) == count(m, key) = 1

\* Registry::Unregister: funcs().erase(key);
\* (faulty variant: ThrowsOnAbsent raises when the key has no element)
UnregisterThrowsOnAbsent(m, key) ==
    [map |-> erase(m, key), ret |-> IF count(m, key) = 0 THEN OutOfRange ELSE Void]
UnregisterOf(m, key) == [map |-> erase(m, key), ret |-> Void]

(* ------------------------------ actions ------------------------------- *)
\* lastMut[r][key] is the history of the calls that named key: the kind of
\* the latest Register/Unregister and, for a Register, its callable, whether
\* the mutation before it was a Register of the same key too (over), and
\* whether it and the Register it overwrote both returned true (ok).
\* NoMut: no Register or Unregister has named the key yet.
NoMut == [kind |-> "none", func |-> 0, over |-> FALSE, ok |-> TRUE]

\* The record of a completed call.  had: the key had an element just before
\* the call.
Done(op, r, key, f, a, ret, invoked, had) ==
    [op |-> op, reg |-> r, key |-> key, func |-> f, arg |-> a,
     ret |-> ret, invoked |-> invoked, had |-> had]

\* A call Registry<..., r, ...>::Register(key, func)
Register(r, key, func) ==
    LET res == RegisterOf(funcs(r), key, func)
    IN  /\ func_map' = [func_map EXCEPT ![r] = res.map]
        /\ constructed' = [constructed EXCEPT ![r] = TRUE]
        /\ last' = Done("Register", r, key, func, 0, res.ret, NoCall,
                        count(funcs(r), key) > 0)
        /\ lastMut' = [lastMut EXCEPT ![r][key] =
                          [kind |-> "Register", func |-> func,
                           over |-> lastMut[r][key].kind = "Register",
                           ok |-> /\ res.ret = Returned(TRUE)
                                  /\ lastMut[r][key].kind = "Register"
                                        => lastMut[r][key].ok]]

\* A call Registry<..., r, ...>::Unregister(key)
Unregister(r, key) ==
    LET res == UnregisterOf(funcs(r), key)
    IN  /\ func_map' = [func_map EXCEPT ![r] = res.map]
        /\ constructed' = [constructed EXCEPT ![r] = TRUE]
        /\ last' = Done("Unregister", r, key, 0, 0, res.ret, NoCall,
                        count(funcs(r), key) > 0)
        /\ lastMut' = [lastMut EXCEPT ![r][key] =
                          [kind |-> "Unregister", func |-> 0, over |-> FALSE,
                           ok |-> TRUE]]

\* A call Registry<..., r, ...>::IsRegistered(key): reads the table only
IsRegistered(r, key) ==
    /\ func_map' = [func_map EXCEPT ![r] = funcs(r)]
    /\ constructed' = [constructed EXCEPT ![r] = TRUE]
    /\ last' = Done("IsRegistered", r, key, 0, 0,
                    Returned(IsRegisteredOf(funcs(r), key)), NoCall,
                    count(funcs(r), key) > 0)
    /\ UNCHANGED lastMut

\* A Dispatch that looks the key up with operator[]: a key with no element
\* gets one, holding an empty callable.
DispatchInserting(r, key, a) ==
    LET res == DispatchOf(r, funcs(r), key, a)
    IN  /\ func_map' = [func_map EXCEPT ![r] =
                           IF count(funcs(r), key) = 0
                           THEN funcs(r) \cup {[first |-> key, second |-> 0]}
                           ELSE funcs(r)]
        /\ constructed' = [constructed EXCEPT ![r] = TRUE]
        /\ last' = Done("Dispatch", r, key, 0, a, res.ret, res.invoked,
                        count(funcs(r), key) > 0)
        /\ UNCHANGED lastMut

\* A call Registry<..., r, ...>::Dispatch(key, a): reads the table only
Dispatch(r, key, a) ==
    LET res == DispatchOf(r, funcs(r), key, a)
    IN  /\ func_map' = [func_map EXCEPT ![r] = funcs(r)]
        /\ constructed' = [constructed EXCEPT ![r] = TRUE]
        /\ last' = Done("Dispatch", r, key, 0, a, res.ret, res.invoked,
                        count(funcs(r), key) > 0)
        /\ UNCHANGED lastMut

(* --------------------------- specification ---------------------------- *)
NoCallYet == Done("none", "none", 0, 0, 0, Void, NoCall, FALSE)

\* The program has instantiations rs of the template and has not touched a
\* table yet.
Fresh(rs) ==
    /\ func_map = [r \in rs |-> EmptyMap]
    /\ constructed = [r \in rs |-> FALSE]
    /\ lastMut = [r \in rs |-> [k \in Keys |-> NoMut]]
    /\ stat = [r \in rs |-> [by |-> 0, built |-> 0]]
    /\ last = NoCallYet
    /\ raced = FALSE
    /\ ncalls = 0

\* A program with one instantiation of the template, of any policy; it has no
\* second thread and no self-registration trigger, and main makes the calls.
Init ==
    /\ \E mkp \in MissingKeyPolicy : Fresh({mkp})
    /\ thr = <<>>
    /\ trig = <<>>
    /\ inMain = TRUE

Next ==
    \/ \E r \in Registries, key \in Keys, func \in Funcs :
          Register(r, key, func) /\ UNCHANGED ext
    \/ \E r \in Registries, key \in Keys :
          Unregister(r, key) /\ UNCHANGED ext
    \/ \E r \in Registries, key \in Keys :
          IsRegistered(r, key) /\ UNCHANGED ext
    \/ \E r \in Registries, key \in Keys, a \in ArgVals :
          Dispatch(r, key, a) /\ UNCHANGED ext

Spec == Init /\ [][Next]_vars

(* --------------------------- legacy registry -------------------------- *)
\* The older Registry<T, Pack...> and the macro-generated <Base>Registry keep
\* a table of constructor callables by class name.  Their Register,
\* IsRegistered and Unregister are the same statements on ctors() as the ones
\* above on funcs(); Create takes the place of Dispatch.
NullPtr == 0
EmptyFunc == 0

\* Create wrote "Class <class_name> not registered." to std::cerr, then
\* returned the null pointer.
CerrThenNull == [kind |-> "cerr_nullptr", val |-> NullPtr]

\* m[key] of the standard map: a key with no element gets one, holding a
\* default-constructed (empty) callable.
subscript(m, key) ==
    IF count(m, key) = 0
    THEN [map |-> m \cup {[first |-> key, second |-> EmptyFunc]},
          value |-> EmptyFunc]
    ELSE [map |-> m, value |-> second(find(m, key))]

\* Create that lets the lookup raise on a class name with no element.
CreateThrows(m, class_name, a) ==
    IF count(m, class_name) = 1
    THEN [map |-> m, ret |-> Returned(Invoke(second(find(m, class_name)), a)),
          invoked |-> Call(second(find(m, class_name)), a)]
    ELSE [map |-> m, ret |-> OutOfRange, invoked |-> NoCall]

\* Create(class_name, a)
CreateOf(m, class_name, a) ==
    IF count(m, class_name) = 1
    THEN LET ctor == subscript(m, class_name)
         IN  [map |-> ctor.map, ret |-> Returned(Invoke(ctor.value, a)),
              invoked |-> Call(ctor.value, a)]
    ELSE [map |-> m, ret |-> CerrThenNull, invoked |-> NoCall]

\* A call Registry<T, Pack...>::Create(class_name, a)
Create(r, class_name, a) ==
    LET res == CreateOf(funcs(r), class_name, a)
    IN  /\ func_map' = [func_map EXCEPT ![r] = res.map]
        /\ constructed' = [constructed EXCEPT ![r] = TRUE]
        /\ last' = Done("Create", r, class_name, 0, a, res.ret, res.invoked,
                        count(funcs(r), class_name) > 0)
        /\ UNCHANGED lastMut

\* A program with one legacy registry.
InitLegacy ==
    /\ Fresh({"legacy"})
    /\ thr = <<>>
    /\ trig = <<>>
    /\ inMain = TRUE

NextLegacy ==
    \/ \E r \in Registries, key \in Keys, func \in Funcs :
          Register(r, key, func) /\ UNCHANGED ext
    \/ \E r \in Registries, key \in Keys :
          Unregister(r, key) /\ UNCHANGED ext
    \/ \E r \in Registries, key \in Keys :
          IsRegistered(r, key) /\ UNCHANGED ext
    \/ \E r \in Registries, key \in Keys, a \in ArgVals :
          Create(r, key, a) /\ UNCHANGED ext

SpecLegacy == InitLegacy /\ [][NextLegacy]_vars

(* -------------------------- self-registration ------------------------- *)
\* A registration macro defines a static object whose initialiser calls
\* Register with the class's name and a callable that constructs the class;
\* the language initialises the statics of all translation units, in an order
\* it does not fix between them, and then runs main.  Trigger d is the macro
\* written for class d; trig[d].func is the callable it passes and
\* trig[d].calls counts the calls it has made on the table.
NumTriggers == 2
TriggerIds == 1..NumTriggers
Triggers == DOMAIN trig
Instantiations == MissingKeyPolicy \cup {"legacy"}

\* A static that is initialised again every time control reaches it.
AlwaysUninitialized(d) == TRUE

\* The static of trigger d has not been initialised.
Uninitialized(d) == trig[d].state = "uninitialized"

\* main starts whether or not the statics are initialised.
StaticInitDeferred == TRUE

\* The initialisation of every static of the program has run.
StaticInitDone == \A d \in Triggers : trig[d].state = "registered"

\* The initialiser of trigger d runs: one Register call.
RunTrigger(r, d) ==
    /\ ~inMain
    /\ Uninitialized(d)
    /\ Register(r, d, trig[d].func)
    /\ trig' = [trig EXCEPT ![d] = [state |-> "registered", func |-> @.func,
                                     calls |-> @.calls + 1]]
    /\ UNCHANGED <<thr, stat, raced, inMain, ncalls>>

\* Static initialisation is over: main begins.
MainBegins ==
    /\ ~inMain
    /\ StaticInitDone
    /\ inMain' = TRUE
    /\ UNCHANGED <<func_map, constructed, last, lastMut, thr, stat, raced,
                   trig, ncalls>>

\* A program with one registry, of a policy or legacy, and the triggers of
\* the classes 1..NumTriggers linked in; no static is initialised yet.  The
\* lookups of NextStartup are made by main once it has begun, and by the
\* initialisers of other statics before.
InitStartup ==
    /\ \E r \in Instantiations : Fresh({r})
    /\ \E f \in [TriggerIds -> Funcs] :
          trig = [d \in TriggerIds |->
                    [state |-> "uninitialized", func |-> f[d], calls |-> 0]]
    /\ thr = <<>>
    /\ inMain = FALSE

NextStartup ==
    \/ \E r \in Registries, d \in Triggers : RunTrigger(r, d)
    \/ MainBegins
    \/ \E r \in Registries, key \in Keys :
          IsRegistered(r, key) /\ UNCHANGED ext
    \/ \E r \in Registries \cap MissingKeyPolicy, key \in Keys, a \in ArgVals :
          Dispatch(r, key, a) /\ UNCHANGED ext
    \/ \E r \in Registries \ MissingKeyPolicy, key \in Keys, a \in ArgVals :
          Create(r, key, a) /\ UNCHANGED ext

SpecStartup == InitStartup /\ [][NextStartup]_vars

(* ------------------------ several instantiations --------------------- *)
\* A program that uses three instantiations side by side, one of each policy,
\* as the example does with Base0Factory (exception), Base1Factory
\* (default_construct) and Base2Factory (optional).  Here the three have the
\* same key type and the same callable signature, and differ in their policy
\* alone.  The program makes MaxCalls calls at most.
MaxCalls == 2

\* One more call is made.
Counted ==
    /\ ncalls < MaxCalls
    /\ ncalls' = ncalls + 1
    /\ UNCHANGED <<thr, stat, raced, trig, inMain>>

InitFactories ==
    /\ Fresh(MissingKeyPolicy)
    /\ thr = <<>>
    /\ trig = <<>>
    /\ inMain = TRUE

NextFactories ==
    \/ \E r \in Registries, key \in Keys, func \in Funcs :
          Counted /\ Register(r, key, func)
    \/ \E r \in Registries, key \in Keys :
          Counted /\ Unregister(r, key)
    \/ \E r \in Registries, key \in Keys :
          Counted /\ IsRegistered(r, key)
    \/ \E r \in Registries, key \in Keys, a \in ArgVals :
          Counted /\ Dispatch(r, key, a)

SpecFactories == InitFactories /\ [][NextFactories]_vars

(* ------------------- legacy and default_construct --------------------- *)
\* A program that has the older Registry<T, Pack...> and a policy registry
\* with MissingKeyPolicy::default_construct, of the same key type and the
\* same callable signature, and makes every call twice: on the legacy
\* registry first, then the same call with the same key, callable and
\* argument on the policy registry (Create becomes Dispatch).
Legacy == "legacy"
DefaultConstruct == "default_construct"

\* The next call is made on the legacy registry: the one before it, if any,
\* was made on both.
LegacyTurn == last.reg # Legacy

\* The legacy registry has run call op, and the policy registry has not.
Mirrors(op) == last.reg = Legacy /\ last.op = op

InitRefine ==
    /\ Fresh({Legacy, DefaultConstruct})
    /\ thr = <<>>
    /\ trig = <<>>
    /\ inMain = TRUE

NextRefine ==
    \/ \E key \in Keys, func \in Funcs :
          LegacyTurn /\ Register(Legacy, key, func) /\ UNCHANGED ext
    \/ \E key \in Keys :
          LegacyTurn /\ Unregister(Legacy, key) /\ UNCHANGED ext
    \/ \E key \in Keys :
          LegacyTurn /\ IsRegistered(Legacy, key) /\ UNCHANGED ext
    \/ \E key \in Keys, a \in ArgVals :
          LegacyTurn /\ Create(Legacy, key, a) /\ UNCHANGED ext
    \/ /\ Mirrors("Register")
       /\ Register(DefaultConstruct, last.key, last.func)
       /\ UNCHANGED ext
    \/ /\ Mirrors("Unregister")
       /\ Unregister(DefaultConstruct, last.key)
       /\ UNCHANGED ext
    \/ /\ Mirrors("IsRegistered")
       /\ IsRegistered(DefaultConstruct, last.key)
       /\ UNCHANGED ext
    \/ /\ Mirrors("Create")
       /\ Dispatch(DefaultConstruct, last.key, last.arg)
       /\ UNCHANGED ext

SpecRefine == InitRefine /\ [][NextRefine]_vars

(* ------------------------------ threads ------------------------------- *)
\* Threads of a program that call one registry with no coordination between
\* them.  A call is two steps, so that calls overlap: the thread enters (it
\* runs funcs() and starts its operation on the table), then it finishes (the
\* operation takes effect and the call returns).  The arguments of a call
\* are drawn when it finishes: nothing reads them before.
NumThreads == 2
ThreadIds == 1..NumThreads
Threads == DOMAIN thr
Ops == {"Register", "Unregister", "IsRegistered", "Dispatch"}

\* Dispatch that looks the key up with operator[] as Register does.
AccessKindSubscript(op) ==
    IF op \in {"Register", "Unregister", "Dispatch"} THEN "write" ELSE "read"

\* What the operation does to the table: operator[] and erase may modify it,
\* count, at, find and end are const for the purpose of data races.
AccessKind(op) ==
    IF op \in {"Register", "Unregister"} THEN "write" ELSE "read"

\* Two accesses to one object from two threads are a data race unless both
\* only read.
Conflict(k1, k2) == k1 = "write" \/ k2 = "write"

\* A reader-writer lock around every operation on the table.
BlocksWhileLocked(r, t, op) ==
    \E u \in Threads \ {t} :
        /\ thr[u].pc = "in"
        /\ thr[u].reg = r
        /\ Conflict(AccessKind(thr[u].op), AccessKind(op))

\* The registry takes no lock: nothing makes a caller wait for another
\* caller's operation.
Blocks(r, t, op) == FALSE

\* A static whose initialisation is not guarded: every thread that finds it
\* unconstructed constructs it.
AcquireUnguarded(r) == ~constructed[r]

\* The guard of the function-local static: the first thread to reach the
\* declaration runs the initialisation, and it alone.
Acquire(r) == ~constructed[r] /\ stat[r].by = 0

IdleThread == [pc |-> "idle", op |-> "none", reg |-> "none", ref |-> 0]

\* Thread t, about to start operation op on table r, races with a thread that
\* is in the middle of a conflicting operation on it.
Races(t, r, op) ==
    \E u \in Threads \ {t} :
        /\ thr[u].pc = "in"
        /\ thr[u].reg = r
        /\ Conflict(AccessKind(thr[u].op), AccessKind(op))

\* Thread t holds the table funcs() returned and starts its operation on it.
StartAccess(t, r, op, instance) ==
    /\ thr' = [thr EXCEPT ![t] = [pc |-> "in", op |-> op, reg |-> r,
                                   ref |-> instance]]
    /\ raced' = Races(t, r, op)

\* Thread t calls op on registry r: funcs() returns the table if it is
\* constructed, constructs it if no thread has begun to, and waits for the
\* thread that is constructing it otherwise.
Enter(t, r, op) ==
    /\ ~raced
    /\ thr[t].pc = "idle"
    /\ ~Blocks(r, t, op)
    /\ IF constructed[r]
       THEN StartAccess(t, r, op, stat[r].built) /\ UNCHANGED stat
       ELSE /\ thr' = [thr EXCEPT ![t] =
                         [pc |-> IF Acquire(r) THEN "building" ELSE "waiting",
                          op |-> op, reg |-> r, ref |-> 0]]
            /\ stat' = IF Acquire(r) THEN [stat EXCEPT ![r].by = t] ELSE stat
            /\ UNCHANGED raced
    /\ UNCHANGED <<func_map, constructed, last, lastMut, trig, inMain, ncalls>>

\* The thread that runs the initialisation constructs the empty table,
\* releases the guard and starts its operation.
Build(t) ==
    LET r == thr[t].reg
    IN  /\ ~raced
        /\ thr[t].pc = "building"
        /\ func_map' = [func_map EXCEPT ![r] = EmptyMap]
        /\ constructed' = [constructed EXCEPT ![r] = TRUE]
        /\ stat' = [stat EXCEPT ![r] = [by |-> 0, built |-> stat[r].built + 1]]
        /\ StartAccess(t, r, thr[t].op, stat[r].built + 1)
        /\ UNCHANGED <<last, lastMut, trig, inMain, ncalls>>

\* A thread that waited for the initialisation gets the table.
Wake(t) ==
    LET r == thr[t].reg
    IN  /\ ~raced
        /\ thr[t].pc = "waiting"
        /\ constructed[r]
        /\ StartAccess(t, r, thr[t].op, stat[r].built)
        /\ UNCHANGED <<func_map, constructed, stat, last, lastMut, trig,
                       inMain, ncalls>>

\* The operation of thread t takes effect and its call returns.
Finish(t, op, map) ==
    /\ ~raced
    /\ thr[t].pc = "in"
    /\ thr[t].op = op
    /\ func_map' = [func_map EXCEPT ![thr[t].reg] = map]
    /\ thr' = [thr EXCEPT ![t] = IdleThread]
    /\ UNCHANGED <<constructed, stat, raced, lastMut, trig, inMain, ncalls>>

FinishRegister(t, key, func) ==
    /\ Finish(t, "Register", RegisterOf(func_map[thr[t].reg], key, func).map)
    /\ UNCHANGED last

FinishUnregister(t, key) ==
    /\ Finish(t, "Unregister", UnregisterOf(func_map[thr[t].reg], key).map)
    /\ UNCHANGED last

\* The two lookups leave the table as it is, whatever key they name.
FinishIsRegistered(t) ==
    /\ Finish(t, "IsRegistered", func_map[thr[t].reg])
    /\ UNCHANGED last

FinishDispatch(t) ==
    /\ Finish(t, "Dispatch", func_map[thr[t].reg])
    /\ UNCHANGED last

\* A program whose threads all call the one instantiation it has.
InitThreads ==
    /\ \E mkp \in MissingKeyPolicy : Fresh({mkp})
    /\ thr = [t \in ThreadIds |-> IdleThread]
    /\ trig = <<>>
    /\ inMain = TRUE

NextThreads ==
    \/ \E t \in Threads, r \in Registries, op \in Ops : Enter(t, r, op)
    \/ \E t \in Threads : Build(t)
    \/ \E t \in Threads : Wake(t)
    \/ \E t \in Threads, key \in Keys, func \in Funcs :
          FinishRegister(t, key, func)
    \/ \E t \in Threads, key \in Keys : FinishUnregister(t, key)
    \/ \E t \in Threads : FinishIsRegistered(t)
    \/ \E t \in Threads : FinishDispatch(t)

SpecThreads == InitThreads /\ [][NextThreads]_vars

(* ------------------------------ readers ------------------------------- *)
\* The program the README allows: every Register and Unregister was called
\* and returned before the threads start, and the threads call Dispatch only.

\* The table after Register(k, reg[k]) was called for every key k of ks.
RECURSIVE RegisterAll(_, _, _)
RegisterAll(m, ks, reg) ==
    IF ks = {} THEN m
    ELSE LET k == CHOOSE x \in ks : TRUE
         IN  RegisterAll(RegisterOf(m, k, reg[k]).map, ks \ {k}, reg)

\* The Dispatch(key, a) of thread t returns; last records what it returned.
DispatchReturns(t, key, a) ==
    LET r == thr[t].reg
        res == DispatchOf(r, func_map[r], key, a)
    IN  /\ Finish(t, "Dispatch", func_map[r])
        /\ last' = Done("Dispatch", r, key, 0, a, res.ret, res.invoked,
                        count(func_map[r], key) > 0)

\* reg[k] is the callable registered for key k, 0 when k is not registered.
InitReaders ==
    /\ \E mkp \in MissingKeyPolicy, reg \in [Keys -> Funcs \cup {0}] :
          LET ks == {k \in Keys : reg[k] # 0}
          IN  /\ func_map = [r \in {mkp} |-> RegisterAll(EmptyMap, ks, reg)]
              /\ constructed = [r \in {mkp} |-> TRUE]
              /\ stat = [r \in {mkp} |-> [by |-> 0, built |-> 1]]
              /\ lastMut = [r \in {mkp} |-> [k \in Keys |->
                      IF k \in ks
                      THEN [kind |-> "Register", func |-> reg[k],
                            over |-> FALSE, ok |-> TRUE]
                      ELSE NoMut]]
    /\ thr = [t \in ThreadIds |-> IdleThread]
    /\ last = NoCallYet
    /\ raced = FALSE
    /\ ncalls = 0
    /\ trig = <<>>
    /\ inMain = TRUE

NextReaders ==
    \/ \E t \in Threads, r \in Registries : Enter(t, r, "Dispatch")
    \/ \E t \in Threads, key \in Keys, a \in ArgVals :
          DispatchReturns(t, key, a)

SpecReaders == InitReaders /\ [][NextReaders]_vars

(* ------------------- what the specification expects ------------------ *)
\* The absent-key outcome of each policy (spec section 4.3): KeyNotFound, the
\* default value of R, the absent wrapper.
AbsentRet(mkp) ==
    CASE mkp = "exception" -> OutOfRange
      [] mkp = "default_construct" -> Returned(RetDefault)
      [] mkp = "optional" -> NullOpt

\* The present-key outcome: the callable's value v, wrapped as present(v)
\* under the optional policy.
PresentRet(mkp, v) == IF mkp = "optional" THEN Some(v) ELSE Returned(v)

\* last is the call op(key, ...) on registry r.
LastIs(op, r, key) == last.op = op /\ last.reg = r /\ last.key = key

\* The step is a call op on the registry and key that last names.
ThenIs(op) == last'.op = op /\ last'.reg = last.reg /\ last'.key = last.key

\* No Register has run on registry r yet.
NoRegisterYet(r) == \A k \in Keys : lastMut[r][k].kind # "Register"

(* ------------------------------- claims ------------------------------- *)

\* C1: last write wins.  When the two latest Register/Unregister calls naming
\* key k were Register(k, f1) then Register(k, f2), neither reported an error,
\* the table holds exactly one element for k, and a Dispatch(k, a) invokes f2
\* with a and no other callable (so never an f1 other than f2).
C1_LastWriteWins ==
    \A r \in Registries, k \in Keys :
        (lastMut[r][k].kind = "Register" /\ lastMut[r][k].over) =>
            /\ lastMut[r][k].ok
            /\ count(func_map[r], k) = 1
            /\ LastIs("Dispatch", r, k) =>
                  /\ last.invoked = Call(lastMut[r][k].func, last.arg)
                  /\ last.ret = PresentRet(r, Invoke(lastMut[r][k].func, last.arg))

\* A Dispatch of a key registered twice in a row, with an argument at which
\* the callables differ.
C1_Witness ==
    /\ last.op = "Dispatch"
    /\ lastMut[last.reg][last.key].kind = "Register"
    /\ lastMut[last.reg][last.key].over
    /\ last.arg > 0
    /\ last.invoked = Call(lastMut[last.reg][last.key].func, last.arg)

\* C2: round trip.  A Dispatch(k, a) that directly follows Register(k, f) on
\* the same registry returns f(a), as present(f(a)) under the optional policy,
\* under every policy.
C2_RoundTrip ==
    [][(last.op = "Register" /\ ThenIs("Dispatch"))
           => last'.ret = PresentRet(last.reg, Invoke(last.func, last'.arg))]_vars

\* A Dispatch under the optional policy that returned present(f(a)) for the
\* registered f, at an argument where f(a) is not the default value.
C2_Witness ==
    /\ last.op = "Dispatch"
    /\ last.reg = "optional"
    /\ last.arg > 0
    /\ lastMut[last.reg][last.key].kind = "Register"
    /\ last.ret = Some(Invoke(lastMut[last.reg][last.key].func, last.arg))

\* C3: absence before registration.  As long as no Register has run on a
\* registry, IsRegistered is false for every key and every Dispatch takes the
\* policy's absent-key branch: it raises out_of_range, returns the default
\* value or returns the absent wrapper, and invokes nothing.
C3_AbsentBeforeRegistration ==
    \A r \in Registries :
        NoRegisterYet(r) =>
            /\ \A k \in Keys : ~IsRegisteredOf(funcs(r), k)
            /\ \A k \in Keys :
                  /\ LastIs("IsRegistered", r, k) => last.ret = Returned(FALSE)
                  /\ LastIs("Dispatch", r, k) =>
                        last.ret = AbsentRet(r) /\ last.invoked = NoCall

\* A Dispatch as the very first call on a registry (it builds the table).
C3_Witness ==
    /\ last.op = "Dispatch"
    /\ \A k \in Keys : lastMut[last.reg][k] = NoMut
    /\ last.ret = AbsentRet(last.reg)

\* C4: Unregister is a true removal.  Directly after Unregister(k) the key has
\* no element, an IsRegistered(k) returns false and a Dispatch(k, a) takes the
\* policy's absent-key branch and invokes no callable.
C4_UnregisterRemoves ==
    [][(last'.op = "Unregister" => count(func_map'[last'.reg], last'.key) = 0)
       /\ (last.op = "Unregister" =>
              /\ ThenIs("IsRegistered") =>
                    last'.ret = Returned(FALSE)
              /\ ThenIs("Dispatch") =>
                    last'.ret = AbsentRet(last.reg) /\ last'.invoked = NoCall)]_vars

\* An Unregister of a key that was registered has just completed.
C4_Witness ==
    /\ last.op = "Unregister"
    /\ last.had
    /\ \E k \in Keys \ {last.key} : count(func_map[last.reg], k) = 1

\* The callable stored under key in map m (the key has an element).
Stored(m, key) == (CHOOSE e \in m : e.first = key).second

\* C5: exception policy.  A Dispatch(k, a) on an exception-policy registry
\* raises std::out_of_range exactly when k has no element at the time of the
\* call; on a registered key it returns the stored callable's value.  With no
\* registration at all, every Dispatch raises.
C5_ExceptionPolicy ==
    (last.op = "Dispatch" /\ last.reg = "exception") =>
        /\ last.ret = OutOfRange <=> ~last.had
        /\ last.had <=> lastMut[last.reg][last.key].kind = "Register"
        /\ last.had => last.ret.kind = "value"
        /\ NoRegisterYet(last.reg) => last.ret = OutOfRange /\ last.invoked = NoCall

\* Dispatch raised out_of_range on an exception-policy registry on which
\* nothing was ever registered.
C5_Witness ==
    /\ last.op = "Dispatch"
    /\ last.reg = "exception"
    /\ NoRegisterYet(last.reg)
    /\ last.ret = OutOfRange

\* C6: default_construct policy.  A Dispatch(k, a) on an absent key returns
\* the default value of the return type, invokes nothing and raises nothing;
\* on a present key it returns the stored callable's result.  With callable 1
\* under key 1 and callable 2 under key 2 (1 and 2 at argument 1), Dispatch
\* gives 1 for key 1, 2 for key 2 and 0 for any other key.
C6_DefaultConstructPolicy ==
    (last.op = "Dispatch" /\ last.reg = "default_construct") =>
        LET m == func_map[last.reg]
        IN  /\ ~last.had => last.ret = Returned(RetDefault) /\ last.invoked = NoCall
            /\ last.had =>
                  /\ last.ret = Returned(Invoke(Stored(m, last.key), last.arg))
                  /\ last.invoked = Call(Stored(m, last.key), last.arg)
            /\ last.had <=> lastMut[last.reg][last.key].kind = "Register"
            /\ (/\ m = {[first |-> 1, second |-> 1], [first |-> 2, second |-> 2]}
                /\ last.arg = 1)
                  => last.ret = Returned(IF last.key \in {1, 2} THEN last.key ELSE 0)

\* The scenario: keys 1 and 2 registered, Dispatch of key 3 returned 0.
C6_Witness ==
    /\ last.op = "Dispatch"
    /\ last.reg = "default_construct"
    /\ func_map[last.reg] = {[first |-> 1, second |-> 1], [first |-> 2, second |-> 2]}
    /\ last.arg = 1
    /\ last.key = 3
    /\ last.ret = Returned(0)

\* C7: optional policy.  A Dispatch(k, a) returns a present wrapper if and
\* only if k is registered at the time of the call, holding the stored
\* callable's value whatever it is (the default value included); on an absent
\* key it returns the absent wrapper, invokes nothing and raises nothing.
C7_OptionalPolicy ==
    (last.op = "Dispatch" /\ last.reg = "optional") =>
        LET m == func_map[last.reg]
        IN  /\ last.ret.kind = "optional" <=> last.had
            /\ last.had <=> lastMut[last.reg][last.key].kind = "Register"
            /\ last.had =>
                  /\ last.ret = Some(Invoke(Stored(m, last.key), last.arg))
                  /\ last.invoked = Call(Stored(m, last.key), last.arg)
            /\ ~last.had => last.ret = NullOpt /\ last.invoked = NoCall

\* A registered callable returned the default value and Dispatch wrapped it
\* as present.
C7_Witness ==
    /\ last.op = "Dispatch"
    /\ last.reg = "optional"
    /\ last.had
    /\ last.invoked # NoCall
    /\ last.ret = Some(RetDefault)

\* C8: after any sequence of calls, a key is registered if and only if the
\* latest Register or Unregister naming it was a Register; IsRegistered
\* returns exactly that, and a Dispatch of such a key invokes the callable of
\* that latest Register.
C8_RegisteredIffLastIsRegister ==
    \A r \in Registries, k \in Keys :
        /\ IsRegisteredOf(funcs(r), k) <=> lastMut[r][k].kind = "Register"
        /\ LastIs("IsRegistered", r, k) =>
              last.ret = Returned(lastMut[r][k].kind = "Register")
        /\ (LastIs("Dispatch", r, k) /\ lastMut[r][k].kind = "Register") =>
              last.invoked = Call(lastMut[r][k].func, last.arg)

\* A Dispatch of a key whose latest mutation is a Register that did not
\* overwrite, in a table where another key was unregistered last.
C8_Witness ==
    /\ last.op = "Dispatch"
    /\ lastMut[last.reg][last.key].kind = "Register"
    /\ ~lastMut[last.reg][last.key].over
    /\ last.arg > 0
    /\ last.invoked = Call(lastMut[last.reg][last.key].func, last.arg)
    /\ \E k \in Keys : lastMut[last.reg][k].kind = "Unregister"

\* C9: Register has no failure mode.  Every Register, of a new key or of a
\* registered one, returns true, raises nothing and leaves the key registered.
C9_RegisterAlwaysSucceeds ==
    last.op = "Register" =>
        /\ last.ret = Returned(TRUE)
        /\ count(func_map[last.reg], last.key) = 1

\* A Register of a key that was registered already has completed.
C9_Witness ==
    /\ last.op = "Register"
    /\ last.had
    /\ last.ret = Returned(TRUE)

\* C10: Unregister of a key that is not registered raises nothing and leaves
\* the whole table as it was; so a second Unregister(k) directly after an
\* Unregister(k) changes nothing.
C10_UnregisterAbsentIsNoOp ==
    [][last'.op = "Unregister" =>
          /\ count(funcs(last'.reg), last'.key) = 0 =>
                last'.ret = Void /\ func_map'[last'.reg] = funcs(last'.reg)
          /\ (last.op = "Unregister" /\ ThenIs("Unregister")) =>
                last'.ret = Void /\ func_map' = func_map]_vars

\* An Unregister of an absent key has completed on a table that holds other
\* keys.
C10_Witness ==
    /\ last.op = "Unregister"
    /\ ~last.had
    /\ last.ret = Void
    /\ func_map[last.reg] # EmptyMap

\* C11: the table is created once however many threads first reach it at the
\* same time, through whichever operations.  At most one construction of the
\* table ever runs, at most one thread is running it, and every thread that
\* is operating on the table holds that one instance.
C11_TableCreatedOnce ==
    \A r \in Registries :
        /\ stat[r].built <= 1
        /\ constructed[r] <=> stat[r].built = 1
        /\ Cardinality({t \in Threads : thr[t].pc = "building"}) <= 1
        /\ \A t \in Threads :
              /\ thr[t].pc = "building" => stat[r].by = t
              /\ thr[t].pc = "in" => constructed[r] /\ thr[t].ref = 1

\* Two threads reached the unconstructed table together through different
\* operations: one constructed it and now operates on it, the other still
\* waits for it.
C11_Witness ==
    \E t, u \in Threads :
        /\ thr[t].pc = "in"
        /\ thr[t].ref = 1
        /\ thr[u].pc = "waiting"
        /\ thr[u].op # thr[t].op

\* C12: concurrent readers are safe.  When every Register and Unregister
\* finished before the threads started and the threads only call Dispatch,
\* then however their calls overlap there is no data race, the table still
\* holds exactly what was registered, and each Dispatch(k, a) that returned
\* gave what it gives alone: the value of the callable registered for k
\* applied to a, or the policy's outcome for an absent key.
C12_ConcurrentReadersSafe ==
    \A r \in Registries :
        /\ ~raced
        /\ func_map[r] = {[first |-> k, second |-> lastMut[r][k].func] :
                            k \in {x \in Keys : lastMut[r][x].kind = "Register"}}
        /\ (last.op = "Dispatch" /\ last.reg = r) =>
              IF lastMut[r][last.key].kind = "Register"
              THEN /\ last.ret = PresentRet(r, Invoke(lastMut[r][last.key].func,
                                                      last.arg))
                   /\ last.invoked = Call(lastMut[r][last.key].func, last.arg)
              ELSE /\ last.ret = AbsentRet(r)
                   /\ last.invoked = NoCall

\* A Dispatch of a registered key returned its callable's value while the
\* Dispatch of another thread was in progress, and two are in progress now.
C12_Witness ==
    /\ last.op = "Dispatch"
    /\ last.had
    /\ last.invoked # NoCall
    /\ \E t, u \in Threads :
          /\ t # u
          /\ thr[t].pc = "in" /\ thr[t].op = "Dispatch"
          /\ thr[u].pc = "in" /\ thr[u].op = "Dispatch"

\* C13: lazy creation makes registration independent of the order of static
\* initialisation.  The table exists as soon as any operation has touched it,
\* so as soon as a trigger has run; it then holds exactly the entries of the
\* triggers that have run, each with its trigger's callable; and a lookup
\* (IsRegistered, Dispatch, Create) naming the identifier of a trigger that
\* has run finds that entry, in whatever order triggers and lookups ran.
C13_LazyCreationOrderIndependent ==
    \A r \in Registries :
        LET ran == {d \in Triggers : trig[d].state = "registered"}
        IN  /\ constructed[r] <=> last.op # "none"
            /\ ran # {} => constructed[r]
            /\ func_map[r] = {[first |-> d, second |-> trig[d].func] : d \in ran}
            /\ (last.reg = r /\ last.key \in ran) =>
                  LET f == trig[last.key].func
                  IN  /\ last.op = "IsRegistered" => last.ret = Returned(TRUE)
                      /\ last.op \in {"Dispatch", "Create"} =>
                            /\ last.ret = PresentRet(r, Invoke(f, last.arg))
                            /\ last.invoked = Call(f, last.arg)

\* Before main, a lookup found the entry of a trigger that had run while
\* another trigger had not run yet and another identifier was absent.
C13_Witness ==
    /\ ~inMain
    /\ last.op \in {"Dispatch", "Create"}
    /\ last.key \in Triggers
    /\ trig[last.key].state = "registered"
    /\ last.invoked = Call(trig[last.key].func, last.arg)
    /\ \E d \in Triggers : trig[d].state = "uninitialized"

\* C14: a trigger is a machine of two states.  It starts uninitialized with
\* no call made; its one transition, to registered, is a single Register
\* call carrying its identifier and its callable; registered is terminal and
\* the trigger makes no call after it.
C14_TriggerTwoStates ==
    [][\A d \in Triggers :
          /\ trig'[d].state \in {"uninitialized", "registered"}
          /\ trig'[d].func = trig[d].func
          /\ trig'[d].state = "uninitialized" <=> trig'[d].calls = 0
          /\ trig'[d].state = "registered" <=> trig'[d].calls = 1
          /\ trig[d].state = "registered" => trig'[d] = trig[d]
          /\ trig'[d] # trig[d] =>
                /\ last'.op = "Register"
                /\ last'.key = d
                /\ last'.func = trig[d].func
                /\ last'.ret = Returned(TRUE)
                /\ \A e \in Triggers \ {d} : trig'[e] = trig[e]]_vars

\* main has begun and has looked a key up: every trigger is registered and
\* has made its one call.
C14_Witness ==
    /\ inMain
    /\ last.op \in {"Dispatch", "Create", "IsRegistered"}
    /\ Triggers # {}
    /\ \A d \in Triggers : trig[d].state = "registered" /\ trig[d].calls = 1

\* C15: registration completes before main.  When main begins every linked
\* trigger is registered, and a Dispatch or Create that main makes for the
\* identifier of a trigger returns what that trigger's callable makes of the
\* arguments, calling that callable and no other: never the absent outcome.
C15_RegisteredBeforeMain ==
    [][/\ inMain' => \A d \in Triggers : trig'[d].state = "registered"
       /\ (inMain /\ last'.op \in {"Dispatch", "Create"}
                  /\ last'.key \in Triggers) =>
             LET f == trig[last'.key].func
             IN  /\ last'.had
                 /\ last'.ret = PresentRet(last'.reg, Invoke(f, last'.arg))
                 /\ last'.invoked = Call(f, last'.arg)]_vars

\* main got the product of one trigger's callable, and another trigger
\* registered a different callable.
C15_Witness ==
    /\ inMain
    /\ last.op \in {"Dispatch", "Create"}
    /\ last.key \in Triggers
    /\ last.arg # 0
    /\ last.invoked = Call(trig[last.key].func, last.arg)
    /\ \E d \in Triggers : trig[d].func # trig[last.key].func

\* C16: the tables of different instantiations are isolated.  A Register,
\* Unregister, IsRegistered or Dispatch on one instantiation leaves the table
\* of every other instantiation as it was, and with it what IsRegistered and
\* Dispatch return there for every key and argument, the key of the call
\* included.
C16_InstantiationsIsolated ==
    [][\A r \in Registries \ {last'.reg} :
          /\ func_map'[r] = func_map[r]
          /\ constructed'[r] = constructed[r]
          /\ lastMut'[r] = lastMut[r]
          /\ \A key \in Keys :
                /\ IsRegisteredOf(funcs(r)', key) = IsRegisteredOf(funcs(r), key)
                /\ \A a \in ArgVals :
                      DispatchOf(r, funcs(r)', key, a)
                          = DispatchOf(r, funcs(r), key, a)]_vars

\* A Dispatch on one instantiation found a key absent that another
\* instantiation holds.
C16_Witness ==
    /\ last.op = "Dispatch"
    /\ ~last.had
    /\ last.ret = AbsentRet(last.reg)
    /\ \E r \in Registries \ {last.reg} : count(func_map[r], last.key) = 1

\* C17 as the specification states it: two instantiations with the same key
\* type and callable signature observe the same mappings.
C17_OneTablePerKeyAndSignature ==
    \A r, q \in Registries, key \in Keys :
        IsRegisteredOf(funcs(r), key) = IsRegisteredOf(funcs(q), key)

\* C17, amended: there is one table per instantiation, the policy being part
\* of what tells instantiations apart.  What an instantiation holds for a key
\* is decided by the calls made through that instantiation alone: the key is
\* registered there exactly when the latest Register or Unregister of it
\* through that instantiation was a Register, with that call's callable,
\* whatever was registered through the instantiations of other policies.
C17_OneTablePerInstantiation ==
    \A r \in Registries, key \in Keys :
        /\ count(funcs(r), key) <= 1
        /\ IsRegisteredOf(funcs(r), key) <=> lastMut[r][key].kind = "Register"
        /\ IsRegisteredOf(funcs(r), key) =>
              second(find(funcs(r), key)) = lastMut[r][key].func

\* IsRegistered on one instantiation answered false for a key that is
\* registered in an instantiation of another policy.
C17_Witness ==
    /\ last.op = "IsRegistered"
    /\ last.ret = Returned(FALSE)
    /\ \E r \in Registries \ {last.reg} : IsRegisteredOf(funcs(r), last.key)

\* C18: mutation is not thread-safe.  Nothing makes a caller wait: whenever
\* a thread is in the middle of an operation on the table, any other thread
\* that is idle can start any operation on it, and when either of the two is
\* a Register or an Unregister that step is a data race.
C18_MutationTakesNoLock ==
    \A t, u \in Threads, op \in Ops :
        ( /\ t # u
          /\ ~raced
          /\ thr[t].pc = "in"
          /\ thr[u].pc = "idle"
          /\ op \in {"Register", "Unregister"}
                \/ thr[t].op \in {"Register", "Unregister"} )
        => ENABLED (Enter(u, thr[t].reg, op) /\ raced')

\* A Dispatch and a Register are in progress on the table at once: a data
\* race has happened.
C18_Witness ==
    \E t, u \in Threads :
        /\ raced
        /\ thr[t].pc = "in" /\ thr[t].op = "Register"
        /\ thr[u].pc = "in" /\ thr[u].op = "Dispatch"
        /\ thr[u].reg = thr[t].reg

\* C19: legacy Create.  Create(name, a) on a class name that is registered
\* returns what the constructor callable registered for it makes of a, and
\* calls that callable once and no other; on a class name that is not
\* registered it writes the "not registered" line and returns the null
\* pointer, calling nothing.  It never raises, and it leaves the table as it
\* was.
C19_LegacyCreate ==
    last.op = "Create" =>
        LET r == last.reg
            mut == lastMut[r][last.key]
        IN  /\ last.ret.kind \in {"value", "cerr_nullptr"}
            /\ func_map[r] = {[first |-> k, second |-> lastMut[r][k].func] :
                  k \in {x \in Keys : lastMut[r][x].kind = "Register"}}
            /\ IF mut.kind = "Register"
               THEN /\ last.ret = Returned(Invoke(mut.func, last.arg))
                    /\ last.invoked = Call(mut.func, last.arg)
               ELSE /\ last.ret = CerrThenNull
                    /\ last.ret.val = NullPtr
                    /\ last.invoked = NoCall

\* A Create of a class name that was registered and unregistered again came
\* back with the null pointer, on a table that holds other classes.
C19_Witness ==
    /\ last.op = "Create"
    /\ lastMut[last.reg][last.key].kind = "Unregister"
    /\ last.ret = CerrThenNull
    /\ func_map[last.reg] # EmptyMap

\* C21: Dispatch is read-only on the table.  A Dispatch, under every policy,
\* and a legacy Create, of a key that is present or absent, leave the set of
\* registered keys and the callable stored under each key as they were: an
\* absent key gets no entry, and a Dispatch that raises std::out_of_range
\* leaves the table as it found it, so that what follows sees the table the
\* failed call saw.
C21_DispatchReadOnly ==
    [][last'.op \in {"Dispatch", "Create"} =>
          \A r \in Registries :
              /\ funcs(r)' = funcs(r)
              /\ lastMut'[r] = lastMut[r]
              /\ \A key \in Keys :
                    /\ IsRegisteredOf(funcs(r)', key)
                          = IsRegisteredOf(funcs(r), key)
                    /\ count(funcs(r)', key) = count(funcs(r), key)
                    /\ IsRegisteredOf(funcs(r), key) =>
                          second(find(funcs(r)', key))
                              = second(find(funcs(r), key))]_vars

\* A Dispatch raised std::out_of_range for a key that is absent from a table
\* that holds another key, and the key is still absent.
C21_Witness ==
    /\ last.op = "Dispatch"
    /\ last.ret = OutOfRange
    /\ ~last.had
    /\ count(func_map[last.reg], last.key) = 0
    /\ func_map[last.reg] # EmptyMap

\* C22: Register(k, f) and Unregister(k) affect only key k.  For every other
\* key j, IsRegistered(j) answers after the call what it answered before,
\* and the callable stored under j is the one that was stored before: the
\* elements of the table for keys other than k are the same set.
C22_MutationTouchesOnlyItsKey ==
    [][last'.op \in {"Register", "Unregister"} =>
          /\ {e \in func_map'[last'.reg] : e.first # last'.key}
                = {e \in func_map[last'.reg] : e.first # last'.key}
          /\ \A j \in Keys \ {last'.key} :
                IsRegisteredOf(func_map'[last'.reg], j)
                    = IsRegisteredOf(func_map[last'.reg], j)]_vars

\* An Unregister removed a key that was registered, and a Register
\* overwrote one, while another key of the table is registered.
C22_Witness ==
    /\ last.op \in {"Register", "Unregister"}
    /\ last.had
    /\ \E j \in Keys \ {last.key} : IsRegisteredOf(func_map[last.reg], j)
    /\ \E j \in Keys \ {last.key} : ~IsRegisteredOf(func_map[last.reg], j)


C24_TriggerOrderIndependent ==
    \A r \in Registries :
        LET ran == {d \in Triggers : trig[d].state = "registered"}
        IN  func_map[r] = RegisterAll(EmptyMap, ran,
                                      [d \in Triggers |-> trig[d].func])

\* Every trigger has run and the trigger of identifier 1 ran last, after a
\* trigger that registered a different callable.
C24_Witness ==
    /\ StaticInitDone
    /\ last.op = "Register"
    /\ last.key = 1
    /\ \E d \in Triggers \ {1} :
          /\ trig[d].func # trig[1].func
          /\ Stored(func_map[last.reg], d) = trig[d].func
    /\ Stored(func_map[last.reg], 1) = trig[1].func


\* C25: Dispatch(k, args...) on a registered key invokes exactly one
\* callable, the one stored under k, exactly once, with the caller's
\* arguments unchanged, and returns what it returned (wrapped under the
\* optional policy); it invokes no callable stored under another key.  On an
\* absent key it invokes nothing.
C25_DispatchInvokesExactlyOne ==
    last.op = "Dispatch" =>
        LET m == func_map[last.reg]
        IN  IF last.had
            THEN /\ Len(last.invoked) = 1
                 /\ last.invoked[1].func = Stored(m, last.key)
                 /\ last.invoked[1].arg = last.arg
                 /\ last.ret = PresentRet(last.reg,
                                          Invoke(Stored(m, last.key), last.arg))
                 /\ \A e \in m :
                       (e.first # last.key /\ e.second # Stored(m, last.key)) =>
                           \A i \in 1..Len(last.invoked) :
                               last.invoked[i].func # e.second
            ELSE last.invoked = NoCall

\* A Dispatch with a nonzero argument found its key in a table that also
\* holds another key with a different callable, and made one call.
C25_Witness ==
    /\ last.op = "Dispatch"
    /\ last.had
    /\ last.arg # 0
    /\ Len(last.invoked) = 1
    /\ \E e \in func_map[last.reg] :
          /\ e.first # last.key
          /\ e.second # last.invoked[1].func


\* C26: the legacy Registry<T, Pack...> refines the default_construct
\* policy.  Given the same sequence of Register, Unregister, IsRegistered
\* and Create/Dispatch calls with the same keys and callables, each call
\* returns the same value from both (true from Register, the same answer
\* from IsRegistered, nothing from Unregister, the callable's value or the
\* null value on an absent key from Create and Dispatch), makes the same
\* calls to stored callables, and leaves the same keys registered with the
\* same callables.
C26_LegacyRefinesDefaultConstruct ==
    [][(last.reg = Legacy /\ last'.reg = DefaultConstruct) =>
          /\ \/ /\ last.ret.kind \in {"value", "cerr_nullptr"}
                /\ last'.ret.kind = "value"
                /\ last'.ret.val = last.ret.val
             \/ /\ last.ret.kind = "void"
                /\ last'.ret.kind = "void"
          /\ last'.invoked = last.invoked
          /\ last'.had = last.had
          /\ func_map'[Legacy] = func_map'[DefaultConstruct]
          /\ \A k \in Keys :
                IsRegisteredOf(func_map'[Legacy], k)
                    = IsRegisteredOf(func_map'[DefaultConstruct], k)]_vars

\* Both registries were asked for a key that is absent, after a Register and
\* an Unregister on both, and the policy registry returned ret_t(); another
\* key is registered in both.
C26_Witness ==
    /\ DefaultConstruct \in Registries
    /\ Legacy \in Registries
    /\ last.reg = DefaultConstruct
    /\ last.op = "Dispatch"
    /\ ~last.had
    /\ last.ret = Returned(RetDefault)
    /\ lastMut[Legacy][last.key].kind = "Unregister"
    /\ lastMut[DefaultConstruct][last.key].kind = "Unregister"
    /\ func_map[Legacy] # EmptyMap
    /\ func_map[Legacy] = func_map[DefaultConstruct]

====
